---- MODULE Spec2Model ----
(***************************************************************************)
(* Model of twisty_beziers: the composite Bezier track (src/src/track.rs)  *)
(* and the mesh builders that consume it (src/src/main.rs).                *)
(*                                                                         *)
(* Numbers.  An f32 scalar is modelled as a float of the same shape but    *)
(* scaled down: an integer count of quanta of 2^-FracBits (the smallest    *)
(* positive value), carrying at most MantBits significant bits, rounded    *)
(* to nearest, ties to even; Inf is +infinity.  Vector quantities          *)
(* (positions, derivatives) and the twist angle are kept exactly, as       *)
(* integers scaled by a power of Q: only the cursor arithmetic             *)
(* (i, rate, |derivative|, i += rate / |derivative|) is rounded.           *)
(***************************************************************************)
EXTENDS Integers, Sequences, FiniteSets

VARIABLES controls, rate, lanes, task, pc, i, ret, prev,
          vertices, total_rows, indices, probe, quat

vars == <<controls, rate, lanes, task, pc, i, ret, prev,
          vertices, total_rows, indices, probe, quat>>

----------------------------------------------------------------------------
(* Bounds of the model *)

FracBits ==
  4

MantBits ==
  3

MaxRows ==
  8

MaxLanes ==
  2

(* u16, the index type of the meshes *)
IndexBits ==
  16

Q == 2 ^ FracBits

Inf == 2 ^ 30

----------------------------------------------------------------------------
(* f32 arithmetic *)

RECURSIVE Ulp(_)
Ulp(n) == IF n < 2 ^ MantBits THEN 1 ELSE 2 * Ulp(n \div 2)

(* n/d rounded to a multiple of u, ties to the even multiple *)
RoundTo(n, d, u) ==
  LET m == n \div (d * u)
      r == n - m * (d * u)
  IN  IF 2 * r > d * u \/ (2 * r = d * u /\ m % 2 = 1)
      THEN (m + 1) * u ELSE m * u

(* num/den (num >= 0, den > 0) rounded to the nearest representable value;
   the operands are evaluated once *)
RoundRat(num, den) ==
  CHOOSE v \in { RoundTo(n, d, Ulp(n \div d)) : n \in {num}, d \in {den} } :
    TRUE

FRound(n) == IF n >= 0 THEN RoundRat(n, 1) ELSE 0 - RoundRat(0 - n, 1)

FAdd(a, b) == IF a = Inf \/ b = Inf THEN Inf ELSE FRound(a + b)

(* a / b for a > 0, b >= 0 (and a >= 0 when b > 0) *)
FDiv(a, b) ==
  IF b = 0 THEN Inf
  ELSE IF b = Inf THEN 0
  ELSE IF a = Inf THEN Inf
  ELSE IF a >= 0 THEN RoundRat(a * Q, b) ELSE 0 - RoundRat((0 - a) * Q, b)

(* floor of the square root *)
RECURSIVE ISqrt(_)
ISqrt(n) ==
  IF n < 2 THEN n
  ELSE CHOOSE r \in UNION { {2 * s, 2 * s + 1} : s \in {ISqrt(n \div 4)} } :
         r * r <= n /\ n < (r + 1) * (r + 1)

(* `x as i64`: truncation toward zero, saturating at the infinities *)
AsI64(x) ==
  IF x = Inf THEN Inf
  ELSE IF x = 0 - Inf THEN 0 - Inf
  ELSE IF x >= 0 THEN x \div Q ELSE 0 - ((0 - x) \div Q)

(* f32::fract: x - trunc(x), with the sign of x *)
Fract(x) == x - AsI64(x) * Q

----------------------------------------------------------------------------
(* Vectors *)

Zero3 == <<0, 0, 0>>
VAdd(a, b) == <<a[1] + b[1], a[2] + b[2], a[3] + b[3]>>
VSub(a, b) == <<a[1] - b[1], a[2] - b[2], a[3] - b[3]>>
VScale(c, a) == <<c * a[1], c * a[2], c * a[3]>>
Dot(a, b) == a[1] * b[1] + a[2] * b[2] + a[3] * b[3]
Cross(a, b) == <<a[2] * b[3] - a[3] * b[2],
                 a[3] * b[1] - a[1] * b[3],
                 a[1] * b[2] - a[2] * b[1]>>

(* |d| of a derivative held as Q^2 * d, as an f32 *)
Magnitude(d) ==
  CHOOSE m \in { RoundRat(ISqrt(n), Q) : n \in {Dot(d, d)} } : TRUE

----------------------------------------------------------------------------
(* track.rs: controls and samples *)

TrackControl(p, d, a) == [position |-> p, direction |-> d, angle |-> a]

front_ctrlp(c) == VAdd(c.position, c.direction)
back_ctrlp(c) == VSub(c.position, c.direction)

(* Q^3 * smooth_step(k/Q) *)
smooth_step(k) == k * k * (3 * Q - 2 * k)

(* Q^3 * lerp(a, b, s/Q^3) *)
lerp(a, b, s) == a * (Q * Q * Q - s) + b * s

(* Q^3 * position at local parameter k/Q *)
spline(begin, end, k) ==
  LET iv == Q - k
      p0 == begin.position
      p1 == front_ctrlp(begin)
      p2 == back_ctrlp(end)
      p3 == end.position
  IN  VAdd(VAdd(VScale(iv * iv * iv, p0), VScale(3 * iv * iv * k, p1)),
           VAdd(VScale(3 * iv * k * k, p2), VScale(k * k * k, p3)))

(* Q^2 * derivative at local parameter k/Q *)
spline_deriv(begin, end, k) ==
  LET iv == Q - k
      p0 == begin.position
      p1 == front_ctrlp(begin)
      p2 == back_ctrlp(end)
      p3 == end.position
  IN  VAdd(VAdd(VScale(3 * iv * iv, VSub(p1, p0)),
                VScale(6 * iv * k, VSub(p2, p1))),
           VScale(3 * k * k, VSub(p3, p2)))

sample(begin, end, k) ==
  [position   |-> spline(begin, end, k),
   derivative |-> spline_deriv(begin, end, k),
   angle      |-> lerp(begin.angle, end.angle, smooth_step(k)),
   index      |-> k]

(* Option<TrackSample>: <<>> is None, <<s>> is Some(s) *)
sample_collection(ctl, x) ==
  LET base == AsI64(x)
  IN  IF base < 0 THEN <<>>
      ELSE IF base >= Len(ctl) THEN <<>>
      ELSE IF base + 1 >= Len(ctl) THEN <<>>
      ELSE <<[sample(ctl[base + 1], ctl[base + 2], Fract(x)) EXCEPT !.index = x]>>

(* nalgebra's UnitQuaternion::rotation_between(a, b), by the case it takes:
   a zero vector gives the identity, a non-zero cross product the rotation
   about it, parallel vectors the identity, and anti-parallel vectors None *)
rotation_between(a, b) ==
  IF a = Zero3 \/ b = Zero3 THEN "identity"
  ELSE IF Cross(a, b) # Zero3 THEN "rotation"
  ELSE IF Dot(a, b) < 0 THEN "none"
  ELSE "identity"

(* TrackSample::quaternion: "panic" when the unwrap meets None, "nan" when
   the twist axis is the normalisation of a zero derivative, else "defined" *)
quaternion(s, axis) ==
  IF rotation_between(axis, s.derivative) = "none" THEN "panic"
  ELSE IF s.derivative = Zero3 THEN "nan"
  ELSE "defined"

(* TrackFollower::new *)
FollowerNew == 0

(* Advance with a cursor that rewinds to the start when the track ends *)
Advance_Rewind(s, cur, r) ==
  IF s = <<>> THEN [ret |-> <<>>, i |-> 0]
  ELSE [ret |-> s,
        i   |-> FAdd(cur, FDiv(r, Magnitude(s[1].derivative)))]

(* The rest of TrackFollower::next once sample_collection has returned s:
   `?` returns None and leaves the cursor, else the cursor advances and the
   sample is returned *)
Advance(s, cur, r) ==
  IF s = <<>> THEN [ret |-> <<>>, i |-> cur]
  ELSE [ret |-> s,
        i   |-> FAdd(cur, FDiv(r, Magnitude(s[1].derivative)))]

(* TrackFollower::next on cursor cur: the value returned and the cursor
   after; the sample is evaluated once *)
FollowerNext(ctl, cur, r) ==
  CHOOSE res \in { Advance(s, cur, r) : s \in {sample_collection(ctl, cur)} } :
    TRUE

----------------------------------------------------------------------------
(* main.rs: mesh builders *)

XAxis == <<1, 0, 0>>
YAxis == <<0, 1, 0>>
ZAxis == <<0, 0, 1>>

U16(x) == x % (2 ^ IndexBits)

(* road_norm: the quaternion about the x axis, applied to the z axis *)
road_norm(s) == quaternion(s, XAxis)

(* One row of track_tess_path: a vertex per lane in -ln..=ln, tagged
   [(u + 0.5) / 2, v, w]; pos holds the row's centre, the lateral offset
   along the rotated normal is not modelled *)
RowVertices(s, cursor, ln, n) ==
  LET total_lanes == ln * 2 + 1
      v == FDiv(s.index, n * Q)
      w == cursor
  IN  [k \in 1..total_lanes |->
         LET lane == k - 1 - ln
             u == FDiv(lane * Q, total_lanes * Q)
         IN  [pos |-> s.position,
              aux |-> <<FDiv(FAdd(u, Q \div 2), 2 * Q), v, w>>]]

(* The six indices pushed for the quad (row, col) *)
QuadIndices(row, col, total_lanes) ==
  LET idx == U16(row * total_lanes + col)
      tl  == U16(total_lanes)
  IN  <<idx, U16(idx + 1), U16(idx + tl),
        U16(U16(idx + tl) + 1), U16(idx + tl), U16(idx + 1)>>

(* TessIndices with the row loop running over every row, the last included *)
TessIndices_EveryRow(rows, total_lanes) ==
  LET nr == IF rows > 0 THEN rows ELSE 0
      nc == IF total_lanes - 1 > 0 THEN total_lanes - 1 ELSE 0
  IN  [k \in 1..(6 * nr * nc) |->
         QuadIndices((k - 1) \div (6 * nc), ((k - 1) \div 6) % nc,
                     total_lanes)[((k - 1) % 6) + 1]]

(* The index loop of track_tess_path: rows 0..total_rows-1, cols 0..total_lanes-1 *)
TessIndices(rows, total_lanes) ==
  LET nr == IF rows - 1 > 0 THEN rows - 1 ELSE 0
      nc == IF total_lanes - 1 > 0 THEN total_lanes - 1 ELSE 0
  IN  [k \in 1..(6 * nr * nc) |->
         QuadIndices((k - 1) \div (6 * nc), ((k - 1) \div 6) % nc,
                     total_lanes)[((k - 1) % 6) + 1]]

(* ReversedTriangle pushing the triangle in its original winding *)
ReversedTriangle_SameWinding(ind, k) == <<ind[k + 1], ind[k + 2], ind[k + 3]>>

(* The three pushes double_side makes for the triangle starting at k *)
ReversedTriangle(ind, k) == <<ind[k + 3], ind[k + 2], ind[k + 1]>>

(* double_side: for k in (0..n).step_by(3), n the length on entry *)
RECURSIVE DoubleSideFrom(_, _, _)
DoubleSideFrom(ind, k, n) ==
  IF k >= n THEN ind
  ELSE DoubleSideFrom(ind \o ReversedTriangle(ind, k), k + 3, n)

double_side(ind) == DoubleSideFrom(ind, 0, Len(ind))

(* track_center_line's indices: (1..len as u16 * 2).map(|i| i / 2) *)
CenterLineIndices(n) ==
  LET n2 == U16(U16(n) * 2)
  IN  [k \in 1..(n2 - 1) |-> k \div 2]

----------------------------------------------------------------------------
(* Inputs *)

(* A straight track of uniform speed 3 *)
Straight ==
  << TrackControl(<<0, 0, 0>>, <<1, 0, 0>>, 0),
     TrackControl(<<3, 0, 0>>, <<1, 0, 0>>, 0),
     TrackControl(<<6, 0, 0>>, <<1, 0, 0>>, 3) >>

(* A track whose first control has a zero tangent *)
ZeroTangent ==
  << TrackControl(<<0, 0, 0>>, <<0, 0, 0>>, 0),
     TrackControl(<<3, 0, 0>>, <<1, 0, 0>>, 0) >>

(* A track heading down the negative x axis *)
Backward ==
  << TrackControl(<<0, 0, 0>>, <<-1, 0, 0>>, 0),
     TrackControl(<<-3, 0, 0>>, <<-1, 0, 0>>, 0) >>

(* A track whose second segment is eight times faster than its first *)
Fast ==
  << TrackControl(<<0, 0, 0>>, <<1, 0, 0>>, 0),
     TrackControl(<<10, 0, 0>>, <<8, 0, 0>>, 0),
     TrackControl(<<26, 0, 0>>, <<8, 0, 0>>, 0) >>

(* A track along the y axis, and one turning from x to y *)
Upward ==
  << TrackControl(<<0, 0, 0>>, <<0, 1, 0>>, 0),
     TrackControl(<<0, 3, 0>>, <<0, 1, 0>>, 3) >>

Turn ==
  << TrackControl(<<0, 0, 0>>, <<1, 0, 0>>, 0),
     TrackControl(<<3, 3, 0>>, <<0, 1, 0>>, 3) >>

ControlSets ==
  { SubSeq(Straight, 1, n) : n \in 0..3 }
    \cup {ZeroTangent, Backward, Fast, Upward, Turn}

(* Positive rates: the smallest positive value, 1.0 and 3.0 *)
Rates == {1, Q, 3 * Q}

Tasks == {"iter", "tess", "line", "probe"}

Representable(t) == FRound(t) = t

(* Global parameters probed directly *)
TSet ==
  { t \in { 0 - (Q + Q \div 2), 0 - Q, 0 - (Q \div 2), 0 - 1, 0, 1, Q \div 2,
            Q - Q \div 8, Q, Q + Q \div 2, 2 * Q, 2 * Q + Q \div 2, 3 * Q } :
      Representable(t) }
    \cup {Inf, 0 - Inf}

Axes == {XAxis, YAxis, ZAxis, <<-1, 0, 0>>, <<0, -2, 0>>}

White == <<Q, Q, Q>>

----------------------------------------------------------------------------
(* State machine *)

StartOf(t) ==
  CASE t = "iter"  -> "iterating"
    [] t = "tess"  -> "rows"
    [] t = "line"  -> "collect"
    [] t = "probe" -> "probe"

Init ==
  /\ controls \in ControlSets
  /\ task \in Tasks
  /\ rate \in (IF task = "probe" THEN {Q} ELSE Rates)
  /\ lanes \in (IF task = "tess" THEN 0..MaxLanes ELSE {0})
  /\ pc = StartOf(task)
  /\ i = FollowerNew
  /\ ret = <<>>
  /\ prev = <<>>
  /\ vertices = <<>>
  /\ total_rows = 0
  /\ indices = <<>>
  /\ probe = <<>>
  /\ quat = <<>>

(* A caller driving Iterator::next by hand; prev is what the call before
   returned *)
IterNext ==
  /\ task = "iter"
  /\ LET r == FollowerNext(controls, i, rate)
     IN  /\ i' = r.i
         /\ ret' = r.ret
         /\ prev' = ret
         /\ pc' = IF r.ret = <<>> THEN "exhausted" ELSE "iterating"
  /\ quat' = <<>>
  /\ UNCHANGED <<controls, rate, lanes, task, vertices, total_rows, indices,
                 probe>>

(* One turn of `while let Some(sample) = follower.next()` in track_tess_path *)
TessRow ==
  /\ task = "tess"
  /\ pc = "rows"
  /\ LET r == FollowerNext(controls, i, rate)
     IN  /\ r.ret = <<>> \/ total_rows < MaxRows
         /\ i' = r.i
         /\ ret' = r.ret
         /\ IF r.ret = <<>>
            THEN /\ pc' = "indices"
                 /\ UNCHANGED <<vertices, total_rows>>
            ELSE IF road_norm(r.ret[1]) = "panic"
            THEN /\ pc' = "panic"
                 /\ UNCHANGED <<vertices, total_rows>>
            ELSE /\ pc' = "rows"
                 /\ vertices' = vertices \o
                      RowVertices(r.ret[1], r.i, lanes, Len(controls))
                 /\ total_rows' = total_rows + 1
  /\ UNCHANGED <<controls, rate, lanes, task, prev, indices, probe, quat>>

(* The index loop of track_tess_path, and its return *)
TessTesselate ==
  /\ task = "tess"
  /\ pc = "indices"
  /\ indices' = TessIndices(total_rows, lanes * 2 + 1)
  /\ pc' = "tessellated"
  /\ UNCHANGED <<controls, rate, lanes, task, i, ret, prev, vertices,
                 total_rows, probe, quat>>

(* double_side(&mut indices), as MyApp::new calls it on the ribbon *)
DoubleSide ==
  /\ task = "tess"
  /\ pc = "tessellated"
  /\ indices' = double_side(indices)
  /\ pc' = "done"
  /\ UNCHANGED <<controls, rate, lanes, task, i, ret, prev, vertices,
                 total_rows, probe, quat>>

(* One sample drawn by the collect() of track_center_line *)
LineCollect ==
  /\ task = "line"
  /\ pc = "collect"
  /\ LET r == FollowerNext(controls, i, rate)
     IN  /\ r.ret = <<>> \/ Len(vertices) < MaxRows
         /\ i' = r.i
         /\ ret' = r.ret
         /\ IF r.ret = <<>>
            THEN /\ pc' = "line_indices"
                 /\ UNCHANGED vertices
            ELSE /\ pc' = "collect"
                 /\ vertices' = Append(vertices,
                      [pos |-> r.ret[1].position, aux |-> White])
  /\ UNCHANGED <<controls, rate, lanes, task, prev, total_rows, indices,
                 probe, quat>>

(* The index list of track_center_line, and its return *)
LineIndices ==
  /\ task = "line"
  /\ pc = "line_indices"
  /\ indices' = CenterLineIndices(Len(vertices))
  /\ pc' = "line_done"
  /\ UNCHANGED <<controls, rate, lanes, task, i, ret, prev, vertices,
                 total_rows, probe, quat>>

(* A direct call sample_collection(controls, t) *)
SampleAt ==
  /\ task = "probe"
  /\ \E t \in TSet :
       probe' = <<[t |-> t, res |-> sample_collection(controls, t)]>>
  /\ UNCHANGED <<controls, rate, lanes, task, pc, i, ret, prev, vertices,
                 total_rows, indices, quat>>

(* s.quaternion(axis) on the sample the follower just yielded, as
   track_trace_away and road_norm call it *)
Quaternion ==
  /\ task = "iter"
  /\ ret # <<>>
  /\ \E axis \in Axes :
       quat' = <<[axis |-> axis, res |-> quaternion(ret[1], axis)]>>
  /\ UNCHANGED <<controls, rate, lanes, task, pc, i, ret, prev, vertices,
                 total_rows, indices, probe>>

Next ==
  \/ IterNext
  \/ TessRow
  \/ TessTesselate
  \/ DoubleSide
  \/ LineCollect
  \/ LineIndices
  \/ SampleAt
  \/ Quaternion

Spec == Init /\ [][Next]_vars

----------------------------------------------------------------------------
(* Properties *)

Probed == probe # <<>>
ProbeT == probe[1].t
ProbeRes == probe[1].res

(* C1: sample_collection(controls, t) is None when t < 0 or
   t >= len(controls) - 1 and Some otherwise; a returned sample has
   index = t and was evaluated at a local parameter in [0, 1) *)
C1_DomainBoundaries ==
  Probed =>
    IF ProbeT < 0 \/ ProbeT >= (Len(controls) - 1) * Q
    THEN ProbeRes = <<>>
    ELSE /\ ProbeRes # <<>>
         /\ ProbeRes[1].index = ProbeT
         /\ 0 <= Fract(ProbeT)
         /\ Fract(ProbeT) < Q

(* C2: with rate > 0 the first sample a follower yields has param 0, and
   of two samples yielded one after the other the later has the strictly
   greater param *)
C2_StrictlyIncreasing ==
  (task = "iter" /\ ret # <<>>) =>
    IF prev = <<>> THEN ret[1].index = 0
    ELSE ret[1].index > prev[1].index

(* C3: a caller that keeps calling next() eventually gets None: a follower
   that has not yet returned None is never at a point where calling next()
   again leaves everything as it is *)
C3_Terminates ==
  (task = "iter") => (pc = "exhausted" \/ ENABLED <<IterNext>>_vars)

(* C4: the step a yielding next() adds to the cursor is finite, so the
   cursor stays finite *)
C4_StepFinite == (ret # <<>>) => (i # Inf)

(* C5: exhaustion is terminal: once next() has returned None every later
   call returns None, and a call that returns None leaves the cursor, the
   rate and the controls as they were *)
C5_ExhaustionTerminal ==
  /\ [](pc = "exhausted" => sample_collection(controls, i) = <<>>)
  /\ [][/\ pc = "exhausted" => pc' = "exhausted"
        /\ pc' = "exhausted" => (i' = i /\ rate' = rate /\ controls' = controls)
       ]_vars

C5_Witness ==
  /\ pc = "exhausted"
  /\ ret = <<>>
  /\ prev = <<>>
  /\ i > 0

(* C6: the ribbon of track_tess_path has rows * (2*lanes+1) vertices and
   6 * (rows-1) * (2*lanes) indices (none when rows < 2 or lanes < 1), every
   index is a 16-bit value below the vertex count, and quad (row, col)
   contributes (a, a+1, a+T) and (a+T+1, a+T, a+1), T = 2*lanes+1,
   a = row*T + col *)
C6_RibbonTopology ==
  pc = "tessellated" =>
    LET T    == 2 * lanes + 1
        rows == total_rows
        nv   == Len(vertices)
    IN  /\ nv = rows * T
        /\ Len(indices) = (IF rows < 2 \/ lanes < 1 THEN 0
                           ELSE 6 * (rows - 1) * (2 * lanes))
        /\ \A k \in 1..Len(indices) :
             indices[k] \in 0..(2 ^ IndexBits - 1) /\ indices[k] < nv
        /\ \A row \in 0..(rows - 2) : \A col \in 0..(2 * lanes - 1) :
             LET a == row * T + col
                 o == 6 * (row * (2 * lanes) + col)
             IN  SubSeq(indices, o + 1, o + 6)
                   = <<a, a + 1, a + T, a + T + 1, a + T, a + 1>>

C6_Witness ==
  /\ pc = "tessellated"
  /\ total_rows >= 3
  /\ lanes = 2
  /\ Len(indices) = 6 * (total_rows - 1) * 4

(* C7: quaternion(axis) is a defined rotation for every non-zero axis and
   non-zero derivative, anti-parallel ones included *)
C7_QuaternionDefined ==
  (quat # <<>> /\ quat[1].axis # Zero3 /\ ret[1].derivative # Zero3)
    => quat[1].res = "defined"

(* C8: double_side keeps the 3n entries it is given and appends 3n more:
   appended triangle k is triangle k with its winding reversed *)
C8_DoubleSide ==
  [][(pc = "tessellated" /\ pc' = "done") =>
       LET len == Len(indices)
       IN  /\ Len(indices') = 2 * len
           /\ SubSeq(indices', 1, len) = indices
           /\ \A k \in 0..(len \div 3 - 1) :
                <<indices'[len + 3 * k + 1], indices'[len + 3 * k + 2],
                  indices'[len + 3 * k + 3]>>
                  = <<indices[3 * k + 3], indices[3 * k + 2], indices[3 * k + 1]>>
    ]_vars

C8_Witness ==
  /\ pc = "done"
  /\ Len(indices) >= 48
  /\ indices[Len(indices) \div 2 + 1] # indices[Len(indices) \div 2 + 3]

LastRow ==
  SubSeq(vertices, Len(vertices) - 2 * lanes, Len(vertices))

RowPushed == task = "tess" /\ pc = "rows" /\ total_rows > 0

(* C9: every vertex of a row carries the param of the row's sample (the
   cursor before the follower advanced) as third coordinate and that param
   over the number of controls as second *)
C9_RawParamIsSampleParam ==
  RowPushed =>
    \A k \in 1..Len(LastRow) :
      /\ LastRow[k].aux[3] = ret[1].index
      /\ LastRow[k].aux[2] = FDiv(ret[1].index, Len(controls) * Q)

(* C10: track_center_line over n samples gives n vertices and the line list
   (0,1),(1,2),...,(n-2,n-1): 2*(n-1) indices for n >= 2, none for n <= 1 *)
C10_LineList ==
  pc = "line_done" =>
    LET n == Len(vertices)
    IN  indices = [k \in 1..(IF n >= 2 THEN 2 * (n - 1) ELSE 0) |-> k \div 2]

====
